---- MODULE Spec2Model ----
(***************************************************************************)
(* Model of the wishlist application: the React component App              *)
(* (src/src/App.jsx) on top of the IndexedDB data-access functions         *)
(* (src/src/utils/indexedDB.js).                                           *)
(*                                                                         *)
(* The storage engine is modelled as IndexedDB specifies it: open requests *)
(* of one database are served in the order they were made, read-write      *)
(* transactions on the same object store run one after the other in the    *)
(* order they were created, a transaction works on a private copy that     *)
(* replaces the committed contents only when it commits, and an unhandled  *)
(* request error aborts the transaction.                                   *)
(*                                                                         *)
(* A promise continuation (the code after an await, a then/catch callback) *)
(* runs in the microtask checkpoint that follows the event callback that   *)
(* settled the promise, so it belongs to the same action as that event.    *)
(* A state update (setItems, setIsLoading) is followed by the render and   *)
(* the run of the effects that depend on it, in the same action.           *)
(***************************************************************************)
EXTENDS Integers, Sequences, FiniteSets, TLC

(* ------------------------------ bounds --------------------------------- *)

\* ids 1..MaxLegacyId belong to items written by the legacy version
MaxLegacyId == 1
\* number of items the user adds over the whole run (fresh Date.now() ids)
MaxAdds == 1
\* storage operations in flight at once
MaxOps == 2
\* edits and toggles the user makes over the whole run
MaxChanges == 2

MaxId == MaxLegacyId + MaxAdds

Ids == 1..MaxId

(* ------------------------------ strings -------------------------------- *)

\* a string is a sequence of characters; " " is the only whitespace used
IsSpace(c) == c = " "

RECURSIVE TrimStart(_)
TrimStart(s) ==
    IF s = <<>> THEN <<>>
    ELSE IF IsSpace(Head(s)) THEN TrimStart(Tail(s)) ELSE s

RECURSIVE TrimEnd(_)
TrimEnd(s) ==
    IF s = <<>> THEN <<>>
    ELSE IF IsSpace(s[Len(s)]) THEN TrimEnd(SubSeq(s, 1, Len(s) - 1)) ELSE s

\* String.prototype.trim
Trim(s) == TrimEnd(TrimStart(s))

\* what the user may have typed into the add form / the edit form
AddForms ==
    { [name |-> <<" ", "A">>, link |-> <<"x", " ">>, price |-> <<"1">>],
      [name |-> <<" ">>,      link |-> <<"x">>,      price |-> <<"1">>] }

EditForms ==
    { [name |-> <<"B", " ">>, link |-> <<"y">>, price |-> <<" ", "2">>],
      [name |-> <<"B">>,      link |-> <<"y">>, price |-> <<" ">>] }

\* the guard of handleAddItem and of handleSaveEdit
FormValid(f) == Trim(f.name) # <<>> /\ Trim(f.link) # <<>> /\ Trim(f.price) # <<>>

(* ------------------------------- items --------------------------------- *)

NewItem(id, f) ==
    [id |-> id, name |-> Trim(f.name), link |-> Trim(f.link),
     price |-> Trim(f.price), bought |-> FALSE]

\* { ...item, name, link, price } of handleSaveEdit
EditedItem(item, f) ==
    [item EXCEPT !.name = Trim(f.name), !.link = Trim(f.link), !.price = Trim(f.price)]

ToggledItem(item) == [item EXCEPT !.bought = ~item.bought]

Range(s) == { s[i] : i \in 1..Len(s) }

IdsOf(s) == { s[i].id : i \in 1..Len(s) }

\* prev.map(item => item.id === id ? { ...item, name, link, price } : item)
EditIn(s, id, f) ==
    [i \in 1..Len(s) |-> IF s[i].id = id THEN EditedItem(s[i], f) ELSE s[i]]

\* prev.map(item => item.id === id ? { ...item, bought: !item.bought } : item)
ToggleIn(s, id) ==
    [i \in 1..Len(s) |-> IF s[i].id = id THEN ToggledItem(s[i]) ELSE s[i]]

\* prev.filter(item => item.id !== id)
RECURSIVE FilterOut(_, _)
FilterOut(s, id) ==
    IF s = <<>> THEN <<>>
    ELSE IF Head(s).id # id THEN <<Head(s)>> \o FilterOut(Tail(s), id)
    ELSE FilterOut(Tail(s), id)

(* --------------------------- object store ------------------------------ *)

\* store.put(item): the key path is id, a record with the same key is replaced
Put(contents, item) == { r \in contents : r.id # item.id } \cup {item}

\* store.delete(id): removing an absent key changes nothing
Remove(contents, id) == { r \in contents : r.id # id }

\* store.getAll(): the records in ascending key order
RECURSIVE GetAll(_)
GetAll(contents) ==
    IF contents = {} THEN <<>>
    ELSE LET m == CHOOSE r \in contents : \A q \in contents : r.id <= q.id
         IN  <<m>> \o GetAll(contents \ {m})

(* --------------------------- legacy slot ------------------------------- *)

\* localStorage.getItem('wishlistItems'): null, or a string.  A string is
\* the empty string, text that is not JSON, or the JSON text of an array.
NoSlot == [kind |-> "null", val |-> <<>>]
EmptyText == [kind |-> "empty", val |-> <<>>]
BadText == [kind |-> "malformed", val |-> <<>>]
JSONText(list) == [kind |-> "array", val |-> list]

LegacyItem(id) ==
    [id |-> id, name |-> <<"L">>, link |-> <<"z">>, price |-> <<"9">>, bought |-> FALSE]

RECURSIVE LegacyList(_)
LegacyList(n) == IF n = 0 THEN <<>> ELSE LegacyList(n - 1) \o <<LegacyItem(n)>>

LegacyValues ==
    {NoSlot, EmptyText, BadText} \cup { JSONText(LegacyList(n)) : n \in 0..MaxLegacyId }

\* if (savedItems): null and the empty string are falsy
Truthy(slot) == slot.kind \in {"malformed", "array"}

\* JSON.parse(savedItems) throws on text that is not JSON
ParseThrows(slot) == slot.kind = "malformed"
JSONParse(slot) == slot.val

(* ------------------------------- prices -------------------------------- *)

\* longest price text the total is checked on
MaxPriceLen == 3

\* amounts are exact decimals, counted in units of 10^-FracDigits
FracDigits == MaxPriceLen

RECURSIVE Pow10(_)
Pow10(n) == IF n = 0 THEN 1 ELSE 10 * Pow10(n - 1)

Unit == Pow10(FracDigits)

DigitChars == {"0", "1", "2", "3", "4", "5", "6", "7", "8", "9"}

DigitVal(c) ==
    CASE c = "0" -> 0 [] c = "1" -> 1 [] c = "2" -> 2 [] c = "3" -> 3 [] c = "4" -> 4
      [] c = "5" -> 5 [] c = "6" -> 6 [] c = "7" -> 7 [] c = "8" -> 8 [] c = "9" -> 9

\* price.replace(/[^0-9.]/g, '')
RECURSIVE StripNonNumeric(_)
StripNonNumeric(s) ==
    IF s = <<>> THEN <<>>
    ELSE IF Head(s) \in DigitChars \/ Head(s) = "."
         THEN <<Head(s)>> \o StripNonNumeric(Tail(s))
         ELSE StripNonNumeric(Tail(s))

\* the number of digits s starts with
RECURSIVE LeadingDigits(_)
LeadingDigits(s) ==
    IF s = <<>> \/ Head(s) \notin DigitChars THEN 0 ELSE 1 + LeadingDigits(Tail(s))

\* the value of a run of digits before the point, read left to right
RECURSIVE IntValue(_, _)
IntValue(acc, digs) ==
    IF digs = <<>> THEN acc ELSE IntValue(10 * acc + DigitVal(Head(digs)), Tail(digs))

\* the value, in units, of a run of digits after the point; w: the weight
\* of the first one
RECURSIVE FracValue(_, _)
FracValue(w, digs) ==
    IF digs = <<>> THEN 0 ELSE w * DigitVal(Head(digs)) + FracValue(w \div 10, Tail(digs))

NaN == -1

\* parseFloat on text of digits and points: the longest prefix that is a
\* decimal literal (digits, then optionally a point and digits; a point
\* needs a digit on one side), NaN when there is none
ParseFloat(s) ==
    LET n == LeadingDigits(s)
        rest == SubSeq(s, n + 1, Len(s))
        m == IF rest # <<>> /\ Head(rest) = "." THEN LeadingDigits(Tail(rest)) ELSE 0
    IN  IF n = 0 /\ m = 0 THEN NaN
        ELSE IntValue(0, SubSeq(s, 1, n)) * Unit + FracValue(Unit \div 10, SubSeq(rest, 2, m + 1))

\* parseFloat(item.price.replace(/[^0-9.]/g, '')) || 0
PriceOf(item) ==
    LET p == ParseFloat(StripNonNumeric(item.price))
    IN  IF p = NaN \/ p = 0 THEN 0 ELSE p

\* mutant: the bought items are not filtered out
RECURSIVE CalculateTotalAll(_)
CalculateTotalAll(list) ==
    IF list = <<>> THEN 0 ELSE PriceOf(Head(list)) + CalculateTotalAll(Tail(list))

\* items.filter(item => !item.bought).reduce((total, item) => total + price, 0)
CalculateTotal(list) ==
    LET unbought == SelectSeq(list, LAMBDA item : ~item.bought)
        reduce[k \in 0..Len(unbought)] ==
            IF k = 0 THEN 0 ELSE reduce[k - 1] + PriceOf(unbought[k])
    IN  reduce[Len(unbought)]

(* ------------------------------- state --------------------------------- *)

VARIABLES
    store,        \* committed contents of the object store 'items'
    legacy,       \* localStorage slot 'wishlistItems'
    items,        \* React state items
    isLoading,    \* React state isLoading
    loadPc,       \* position of loadItems: "getAll", "migrate", "done"
    timers,       \* pending setTimeout(saveItems, 300) timers: [tid, snap]
    effectTimer,  \* timeoutId held by the cleanup of the last save effect, 0 if none
    ops,          \* storage operations in flight, in the order they were issued
    clock,        \* the last id Date.now() handed out
    changes,      \* edits and toggles made so far
    delCommitted, \* history: ids whose deleteItem transaction committed since the page loaded
    mounted,      \* history: the store and the legacy slot as App mounted, until the
                  \* user acts
    total,        \* what calculateTotal() returned in the latest render, in units of
                  \* 10^-FracDigits; 0 while the spinner is rendered instead
    lastEvent     \* history: the promise the latest step settled, if any

vars ==
    <<store, legacy, items, isLoading, loadPc, timers, effectTimer, ops, clock,
      changes, delCommitted, mounted, total, lastEvent>>

NoEvent == [ev |-> "none", arg |-> 0]

\* what the page found when App mounted; forgotten at the first user action
AtMount(db, slot) == [pristine |-> TRUE, store |-> db, legacy |-> slot]
UserActed == [pristine |-> FALSE, store |-> {}, legacy |-> NoSlot]

\* arg: the id of a delete; for a rejected save the request that failed
\*      (-1 the open, 0 the clear, k the put of the k-th item)
Event(ev, arg) == [ev |-> ev, arg |-> arg]

\* an operation in flight: a call of getAllItems, saveAllItems or deleteItem
\*   phase "open": awaiting initDB();  then one phase per request of its
\*   transaction;  "commit": all requests succeeded, the transaction is committing
\*   n: puts that have succeeded;  tx: the transaction's view of the store
GetOp ==
    [kind |-> "get", owner |-> "load", id |-> 0, snap |-> <<>>,
     phase |-> "open", n |-> 0, tx |-> {}]

SaveOp(owner, list) ==
    [kind |-> "save", owner |-> owner, id |-> 0, snap |-> list,
     phase |-> "open", n |-> 0, tx |-> {}]

DelOp(id) ==
    [kind |-> "del", owner |-> "user", id |-> id, snap |-> <<>>,
     phase |-> "open", n |-> 0, tx |-> {}]

RemoveAt(s, i) == SubSeq(s, 1, i - 1) \o SubSeq(s, i + 1, Len(s))

(* ----------------------- debounced save effect ------------------------- *)

\* mutant: the effect returns no cleanup, a superseded timer stays pending
CleanupNothing(ts, eff) == ts

\* return () => clearTimeout(timeoutId): the cleanup of the previous effect run
Cleanup(ts, eff) == { t \in ts : t.tid # eff }

\* setTimeout returns an id no pending timer has
FreshTid(ts) == CHOOSE k \in 1..(Cardinality(ts) + 1) : \A t \in ts : t.tid # k

\* mutant: the effect schedules a save while the list is still loading
SaveGuardIgnoresLoading(list, loading) == Len(list) >= 0

\* mutant: an empty list is not saved
SaveGuardNonEmpty(list, loading) == ~loading /\ Len(list) > 0

\* if (!isLoading && items.length >= 0)
SaveGuard(list, loading) == ~loading /\ Len(list) >= 0

\* the effect on [items, isLoading]: cleanup of the previous run, then this run
Scheduled(ts, eff, list, loading) ==
    LET rest == Cleanup(ts, eff)
    IN  IF SaveGuard(list, loading)
        THEN rest \cup { [tid |-> FreshTid(rest), snap |-> list] }
        ELSE rest

EffectId(ts, eff, list, loading) ==
    IF SaveGuard(list, loading) THEN FreshTid(Cleanup(ts, eff)) ELSE 0

\* a state update, the render and the effects that follow it
Render(list, loading) ==
    /\ items' = list
    /\ isLoading' = loading
    /\ timers' = Scheduled(timers, effectTimer, list, loading)
    /\ effectTimer' = EffectId(timers, effectTimer, list, loading)
    /\ total' = IF loading THEN 0 ELSE CalculateTotal(list)

(* ------------------------------- Init ---------------------------------- *)

\* a first start: the store was never written, the legacy version may have
\* left its slot behind; App is mounted and loadItems has called getAllItems
Init ==
    /\ store = {}
    /\ legacy \in LegacyValues
    /\ items = <<>>
    /\ total = 0
    /\ isLoading = TRUE
    /\ loadPc = "getAll"
    /\ timers = {}
    /\ effectTimer = 0
    /\ ops = <<GetOp>>
    /\ clock = MaxLegacyId
    /\ changes = 0
    /\ delCommitted = {}
    /\ mounted = AtMount(store, legacy)
    /\ lastEvent = NoEvent

(* --------------------------- user handlers ----------------------------- *)

\* the form and the item rows are rendered only when isLoading is false
UIReady == ~isLoading

HandleAddItem ==
    /\ UIReady
    /\ clock < MaxId
    /\ \E f \in AddForms :
        /\ FormValid(f)
        /\ Render(Append(items, NewItem(clock + 1, f)), isLoading)
    /\ clock' = clock + 1
    /\ UNCHANGED <<store, legacy, loadPc, ops, changes, delCommitted>>
    /\ mounted' = UserActed
    /\ lastEvent' = NoEvent

HandleSaveEdit ==
    /\ UIReady
    /\ changes < MaxChanges
    /\ \E id \in IdsOf(items), f \in EditForms :
        /\ FormValid(f)
        /\ Render(EditIn(items, id, f), isLoading)
    /\ UNCHANGED <<store, legacy, loadPc, ops, clock>>
    /\ changes' = changes + 1
    /\ UNCHANGED delCommitted
    /\ mounted' = UserActed
    /\ lastEvent' = NoEvent

HandleToggleBought ==
    /\ UIReady
    /\ changes < MaxChanges
    /\ \E id \in IdsOf(items) :
        Render(ToggleIn(items, id), isLoading)
    /\ UNCHANGED <<store, legacy, loadPc, ops, clock>>
    /\ changes' = changes + 1
    /\ UNCHANGED delCommitted
    /\ mounted' = UserActed
    /\ lastEvent' = NoEvent

\* mutant: handleDeleteItem removes the item from memory before it awaits
HandleDeleteItemRemovesFirst ==
    /\ UIReady
    /\ Len(ops) < MaxOps
    /\ \E id \in IdsOf(items) :
        /\ \A i \in 1..Len(ops) : ~(ops[i].kind = "del" /\ ops[i].id = id)
        /\ ops' = Append(ops, DelOp(id))
        /\ Render(FilterOut(items, id), isLoading)
    /\ UNCHANGED <<store, legacy, loadPc, clock, changes, delCommitted>>
    /\ mounted' = UserActed
    /\ lastEvent' = NoEvent

\* handleDeleteItem up to its await: deleteItemFromDB(id) is called
HandleDeleteItem ==
    /\ UIReady
    /\ Len(ops) < MaxOps
    /\ \E id \in IdsOf(items) :
        /\ \A i \in 1..Len(ops) : ~(ops[i].kind = "del" /\ ops[i].id = id)
        /\ ops' = Append(ops, DelOp(id))
    /\ UNCHANGED <<store, legacy, items, total, isLoading, loadPc, timers, effectTimer, clock, changes, delCommitted>>
    /\ mounted' = UserActed
    /\ lastEvent' = NoEvent

\* a debounce timer expires: saveItems calls saveAllItems(items) with the
\* items of the render that set the timer
TimerFires ==
    /\ Len(ops) < MaxOps
    /\ \E t \in timers :
        /\ timers' = timers \ {t}
        /\ ops' = Append(ops, SaveOp("timer", t.snap))
    /\ UNCHANGED <<store, legacy, items, total, isLoading, loadPc, effectTimer, clock, changes, delCommitted, mounted>>
    /\ lastEvent' = NoEvent

(* ------------------------------ loadItems ------------------------------ *)

\* finally { setIsLoading(false) }, after list became the items
LoadFinish(list) ==
    /\ Render(list, FALSE)
    /\ loadPc' = "done"

\* loadItems after "await getAllItems()" returned loaded; rest: the other
\* operations in flight
LoadContinue(loaded, rest) ==
    IF Len(loaded) = 0 /\ Truthy(legacy) /\ ~ParseThrows(legacy) /\ Len(JSONParse(legacy)) > 0
    THEN \* await saveAllItems(parsedItems)
         /\ Render(loaded, TRUE)
         /\ loadPc' = "migrate"
         /\ ops' = Append(rest, SaveOp("load", JSONParse(legacy)))
    ELSE \* nothing to migrate, or JSON.parse threw into the catch
         /\ LoadFinish(loaded)
         /\ ops' = rest

\* what follows the rejection of saveAllItems in its caller
AfterSaveRejected(op) ==
    IF op.owner = "load"
    THEN \* catch of loadItems: log; finally
         /\ LoadFinish(items)
         /\ UNCHANGED legacy
    ELSE \* catch of saveItems: log
         UNCHANGED <<items, total, isLoading, timers, effectTimer, loadPc, legacy>>

\* what follows the resolution of saveAllItems in its caller
AfterSaveResolved(op) ==
    IF op.owner = "load"
    THEN \* setItems(parsedItems); localStorage.removeItem; finally
         /\ LoadFinish(op.snap)
         /\ legacy' = NoSlot
    ELSE UNCHANGED <<items, total, isLoading, timers, effectTimer, loadPc, legacy>>

\* handleDeleteItem after its await: the same update in the try and in the catch
AfterDeleteResolved(id) == Render(FilterOut(items, id), isLoading)

\* mutant: the catch of handleDeleteItem keeps the item (a rollback)
AfterDeleteRejectedKeeps(id) == UNCHANGED <<items, total, isLoading, timers, effectTimer>>

AfterDeleteRejected(id) == Render(FilterOut(items, id), isLoading)

(* --------------------------- storage engine ---------------------------- *)

\* open requests are served in order
CanOpen(i) == ops[i].phase = "open" /\ \A j \in 1..(i - 1) : ops[j].phase # "open"

FirstPhase(op) ==
    CASE op.kind = "get" -> "read"
      [] op.kind = "save" -> "clear"
      [] op.kind = "del" -> "req"

\* initDB resolves (request.onsuccess); the caller creates its transaction
\* and places its first request
OpenSucceeds ==
    /\ \E i \in 1..Len(ops) :
        /\ CanOpen(i)
        /\ ops' = [ops EXCEPT ![i].phase = FirstPhase(ops[i])]
    /\ UNCHANGED <<store, legacy, items, total, isLoading, loadPc, timers, effectTimer, clock, changes, delCommitted, mounted>>
    /\ lastEvent' = NoEvent

\* initDB rejects (request.onerror): the catch of the caller logs and
\* returns [] (getAllItems) or rethrows (saveAllItems, deleteItem)
OpenFails ==
    /\ \E i \in 1..Len(ops) :
        /\ CanOpen(i)
        /\ LET op == ops[i]
               rest == RemoveAt(ops, i)
           IN  CASE op.kind = "get" ->
                     /\ LoadContinue(<<>>, rest)
                     /\ lastEvent' = Event("getOpenError", 0)
                     /\ UNCHANGED legacy
                 [] op.kind = "save" ->
                     /\ AfterSaveRejected(op)
                     /\ ops' = rest
                     /\ lastEvent' = Event("saveRejected", -1)
                 [] op.kind = "del" ->
                     /\ AfterDeleteRejected(op.id)
                     /\ ops' = rest
                     /\ lastEvent' = Event("delRejected", op.id)
                     /\ UNCHANGED <<loadPc, legacy>>
    /\ UNCHANGED <<store, clock, changes, delCommitted, mounted>>

\* the transaction at the head of the queue is the one that runs
Running(kind, phase) == ops # <<>> /\ ops[1].kind = kind /\ ops[1].phase = phase

\* getAllItems: request.onsuccess resolves with request.result
ReadSucceeds ==
    /\ Running("get", "read")
    /\ LoadContinue(GetAll(store), Tail(ops))
    /\ lastEvent' = Event("getResolved", 0)
    /\ UNCHANGED <<store, legacy, clock, changes, delCommitted, mounted>>

\* getAllItems: request.onerror rejects the promise that the try block
\* returned without awaiting it, so the catch of getAllItems does not see
\* the rejection: it reaches the catch of loadItems, which skips setItems
ReadFails ==
    /\ Running("get", "read")
    /\ LoadFinish(items)
    /\ ops' = Tail(ops)
    /\ lastEvent' = Event("getRejected", 0)
    /\ UNCHANGED <<store, legacy, clock, changes, delCommitted, mounted>>

\* mutant: saveAllItems does not clear the store before its puts
ClearedNothing(contents) == contents

\* store.clear()
Cleared(contents) == {}

\* mutant: the writes of an aborted transaction stay in the store
AbortedKeepsWrites(committed, tx) == tx

\* an aborted transaction leaves the committed contents as they were
Aborted(committed, tx) == committed

\* a committed transaction replaces them by its own view
Committed(committed, tx) == tx

\* clearRequest.onsuccess: every put is placed; with no item to put,
\* Promise.all([]) resolves at once and the completion handlers are set
ClearSucceeds ==
    /\ Running("save", "clear")
    /\ ops' = [ops EXCEPT ![1].tx = Cleared(store),
                          ![1].phase = IF Len(ops[1].snap) = 0 THEN "commit" ELSE "put"]
    /\ UNCHANGED <<store, legacy, items, total, isLoading, loadPc, timers, effectTimer, clock, changes, delCommitted, mounted>>
    /\ lastEvent' = NoEvent

\* clearRequest.onerror rejects; the unhandled error aborts the transaction
ClearFails ==
    /\ Running("save", "clear")
    /\ store' = Aborted(store, ops[1].tx)
    /\ AfterSaveRejected(ops[1])
    /\ ops' = Tail(ops)
    /\ lastEvent' = Event("saveRejected", 0)
    /\ UNCHANGED <<clock, changes, delCommitted, mounted>>

\* addRequest.onsuccess of the next put; after the last one Promise.all
\* resolves and oncomplete / onerror are set
PutSucceeds ==
    /\ Running("save", "put")
    /\ LET op == ops[1]
           k == op.n + 1
       IN  ops' = [ops EXCEPT ![1].tx = Put(op.tx, op.snap[k]),
                              ![1].n = k,
                              ![1].phase = IF k = Len(op.snap) THEN "commit" ELSE "put"]
    /\ UNCHANGED <<store, legacy, items, total, isLoading, loadPc, timers, effectTimer, clock, changes, delCommitted, mounted>>
    /\ lastEvent' = NoEvent

\* addRequest.onerror of the next put: rejectItem, Promise.all rejects,
\* .catch(reject); the unhandled error aborts the transaction
PutFails ==
    /\ Running("save", "put")
    /\ store' = Aborted(store, ops[1].tx)
    /\ AfterSaveRejected(ops[1])
    /\ ops' = Tail(ops)
    /\ lastEvent' = Event("saveRejected", ops[1].n + 1)
    /\ UNCHANGED <<clock, changes, delCommitted, mounted>>

\* transaction.oncomplete = () => resolve()
SaveCommits ==
    /\ Running("save", "commit")
    /\ store' = Committed(store, ops[1].tx)
    /\ AfterSaveResolved(ops[1])
    /\ ops' = Tail(ops)
    /\ lastEvent' = Event("saveResolved", 0)
    /\ UNCHANGED <<clock, changes, delCommitted, mounted>>

\* the commit fails and the transaction aborts: an abort event is fired at
\* the transaction, which has handlers for complete and error only, so the
\* promise of saveAllItems is never settled and its caller never resumes
SaveAborts ==
    /\ Running("save", "commit")
    /\ store' = Aborted(store, ops[1].tx)
    /\ ops' = Tail(ops)
    /\ lastEvent' = Event("saveHung", 0)
    /\ UNCHANGED <<legacy, items, total, isLoading, loadPc, timers, effectTimer, clock, changes, delCommitted, mounted>>

\* deleteItem: request.onsuccess resolves, before the transaction commits
DeleteSucceeds ==
    /\ Running("del", "req")
    /\ ops' = [ops EXCEPT ![1].tx = Remove(store, ops[1].id), ![1].phase = "commit"]
    /\ AfterDeleteResolved(ops[1].id)
    /\ lastEvent' = Event("delResolved", ops[1].id)
    /\ UNCHANGED <<store, legacy, loadPc, clock, changes, delCommitted, mounted>>

\* deleteItem: request.onerror rejects; the transaction aborts
DeleteFails ==
    /\ Running("del", "req")
    /\ store' = Aborted(store, ops[1].tx)
    /\ ops' = Tail(ops)
    /\ AfterDeleteRejected(ops[1].id)
    /\ lastEvent' = Event("delRejected", ops[1].id)
    /\ UNCHANGED <<legacy, loadPc, clock, changes, delCommitted, mounted>>

\* the transaction of a resolved deleteItem commits
DeleteCommits ==
    /\ Running("del", "commit")
    /\ store' = Committed(store, ops[1].tx)
    /\ ops' = Tail(ops)
    /\ lastEvent' = Event("delCommitted", ops[1].id)
    /\ delCommitted' = delCommitted \cup {ops[1].id}
    /\ UNCHANGED <<legacy, items, total, isLoading, loadPc, timers, effectTimer, clock, changes, mounted>>

\* the transaction of a resolved deleteItem fails to commit; nothing listens
DeleteAborts ==
    /\ Running("del", "commit")
    /\ store' = Aborted(store, ops[1].tx)
    /\ ops' = Tail(ops)
    /\ lastEvent' = Event("delAborted", ops[1].id)
    /\ UNCHANGED <<legacy, items, total, isLoading, loadPc, timers, effectTimer, clock, changes, delCommitted, mounted>>

(* ------------------------------ restart -------------------------------- *)

\* the page is loaded again once the engine is idle: React state and timers
\* are gone, the store and localStorage stay; the legacy slot may have been
\* rewritten in between; App mounts and loadItems calls getAllItems
Reload ==
    /\ ops = <<>>
    /\ legacy' \in LegacyValues
    /\ items' = <<>>
    /\ total' = 0
    /\ isLoading' = TRUE
    /\ loadPc' = "getAll"
    /\ timers' = {}
    /\ effectTimer' = 0
    /\ ops' = <<GetOp>>
    /\ lastEvent' = NoEvent
    /\ delCommitted' = {}
    /\ mounted' = AtMount(store, legacy')
    /\ UNCHANGED <<store, clock, changes>>

Next ==
    \/ HandleAddItem
    \/ HandleSaveEdit
    \/ HandleToggleBought
    \/ HandleDeleteItem
    \/ TimerFires
    \/ OpenSucceeds
    \/ OpenFails
    \/ ReadSucceeds
    \/ ReadFails
    \/ ClearSucceeds
    \/ ClearFails
    \/ PutSucceeds
    \/ PutFails
    \/ SaveCommits
    \/ SaveAborts
    \/ DeleteSucceeds
    \/ DeleteFails
    \/ DeleteCommits
    \/ DeleteAborts
    \/ Reload

Spec == Init /\ [][Next]_vars

TypeOK ==
    /\ \A r \in store : r.id \in Ids
    /\ isLoading \in BOOLEAN
    /\ loadPc \in {"getAll", "migrate", "done"}
    /\ Len(ops) <= MaxOps
    /\ clock \in MaxLegacyId..MaxId
    /\ changes \in 0..MaxChanges
    /\ delCommitted \subseteq Ids
    /\ mounted.pristine \in BOOLEAN

(* ------------------------- steps, as seen from outside ------------------ *)

SaveOps(q) == { i \in 1..Len(q) : q[i].kind = "save" }

\* the step ends a call of saveAllItems / settles a call of deleteItem
SaveResolvedStep == lastEvent'.ev = "saveResolved"
SaveFailedStep == Cardinality(SaveOps(ops')) < Cardinality(SaveOps(ops)) /\ ~SaveResolvedStep
DeleteSettledStep(id) == lastEvent'.ev \in {"delResolved", "delRejected"} /\ lastEvent'.arg = id

StoreIds == { r.id : r \in store }

(* -------------------------------- C1 ----------------------------------- *)

\* C1: when a saveAllItems call made with the in-memory list resolves,
\* getAllItems returns exactly the in-memory records: the same ids, the same
\* record for each id, nothing missing and nothing extra.
C1_SaveThenLoadIsMemory ==
    [][ (SaveResolvedStep /\ ops[1].snap = items')
          => /\ Range(GetAll(store')) = Range(items')
             /\ IdsOf(GetAll(store')) = IdsOf(items')
             /\ Len(GetAll(store')) = Len(items') ]_vars

\* a toggled, edited list was saved and the store holds exactly that list
C1_Witness ==
    /\ lastEvent.ev = "saveResolved"
    /\ Range(GetAll(store)) = Range(items)
    /\ Len(items) = MaxId
    /\ \E r \in store : r.bought /\ r.name = <<"B">>
    /\ \E r \in store : ~r.bought

(* -------------------------------- C2 ----------------------------------- *)

\* C2: a saveAllItems call that fails (open, clear, any put, or the commit)
\* leaves the store as it was, and the only way its transaction changes the
\* committed contents is by installing the complete list when it commits.
C2_ReplaceAllAtomic ==
    [][ /\ SaveFailedStep => store' = store
        /\ (ops # <<>> /\ ops[1].kind = "save" /\ store' # store)
              => SaveResolvedStep /\ store' = Range(ops[1].snap) ]_vars

\* the put of the last of several items failed and the prior contents,
\* which differ from the list being written, are still there
C2_Witness ==
    /\ lastEvent = Event("saveRejected", MaxId)
    /\ store # {}
    /\ store # Range(items)
    /\ Len(items) = MaxId

(* -------------------------------- C3 ----------------------------------- *)

\* C3: migration runs once: during a startup in which the store is
\* non-empty, the legacy slot is neither imported (no saveAllItems is issued
\* by loadItems) nor removed.
C3_MigrationOnlyIntoEmptyStore ==
    [][ (loadPc # "done" /\ ops # <<>> /\ store # {})
          => /\ legacy' = legacy
             /\ \A i \in 1..Len(ops') : ~(ops'[i].kind = "save" /\ ops'[i].owner = "load") ]_vars

(* -------------------------------- C4 ----------------------------------- *)

C5_SaveFailureRejects ==
    [][ /\ SaveFailedStep => lastEvent'.ev = "saveRejected"
        /\ SaveResolvedStep => ops[1].phase = "commit" /\ store' = ops[1].tx ]_vars

(* -------------------------------- C6 ----------------------------------- *)

\* C6: getAllItems never rejects: on an open error and on a read error it
\* resolves with an empty list.
C6_GetAllNeverRejects == lastEvent.ev # "getRejected"

(* -------------------------------- C7 ----------------------------------- *)

DebouncedOrDelete(op) == op.kind = "del" \/ (op.kind = "save" /\ op.owner = "timer")

C8_SingleSlotLatestSnapshot ==
    /\ Cardinality(timers) <= 1
    /\ \A t \in timers : t.snap = items /\ t.tid = effectTimer

\* a timer fired, the list changed since, and the new timer holds the new list
C8_Witness ==
    /\ \E t \in timers, i \in 1..Len(ops) :
          ops[i].kind = "save" /\ ops[i].owner = "timer" /\ ops[i].snap # t.snap
    /\ changes = MaxChanges

(* -------------------------------- C9 ----------------------------------- *)

\* C9: the in-memory removal of handleDeleteItem happens only when
\* deleteItem has settled: while the call is awaited the item is still in
\* the in-memory list, which is what a timer firing in between captures.
C9_RemovalOnlyAfterSettle ==
    \A i \in 1..Len(ops) :
        (ops[i].kind = "del" /\ ops[i].phase \in {"open", "req"}) => ops[i].id \in IdsOf(items)

\* the transaction of deleteItem(id) committed, a replace-all issued before
\* the in-memory removal committed after it, and the store holds id again
C9_Witness ==
    /\ lastEvent.ev = "saveResolved"
    /\ \E id \in delCommitted : id \in StoreIds /\ id \notin IdsOf(items)

(* -------------------------------- C10 ---------------------------------- *)

\* C10: when the deleteItem call of handleDeleteItem(id) settles, resolved
\* or rejected, id leaves the in-memory list, every other item stays as it
\* was, and a rejection issues no further storage operation.
C10_OptimisticDelete ==
    [][ \A id \in Ids :
          DeleteSettledStep(id)
            => /\ id \notin IdsOf(items')
               /\ Range(items') = { r \in Range(items) : r.id # id }
               /\ Len(items') = Cardinality(Range(items'))
               /\ lastEvent'.ev = "delRejected" => Len(ops') < Len(ops) ]_vars

\* a delete was rejected: the item is gone from memory and still stored,
\* another item is still in memory
C10_Witness ==
    /\ lastEvent.ev = "delRejected"
    /\ lastEvent.arg \in StoreIds
    /\ lastEvent.arg \notin IdsOf(items)
    /\ items # <<>>

(* -------------------------------- C11 ---------------------------------- *)

\* the characters price texts are built from
PriceChars == {"$", ",", ".", "0", "1"}

RECURSIVE Texts(_)
Texts(n) ==
    IF n = 0 THEN {<<>>}
    ELSE Texts(n - 1) \cup { Append(t, c) : t \in { u \in Texts(n - 1) : Len(u) = n - 1 }, c \in PriceChars }

\* the prices of the scenario of the specification, and some with a point
ExamplePrices ==
    { <<"$", "1", ",", "2", "9", "9">>, <<"$", "2", ",", "5", "0", "0">>,
      <<"1", ".", "5">>, <<"$">> }

PricedItem(id, price, bought) ==
    [id |-> id, name |-> <<"A">>, link |-> <<"x">>, price |-> price, bought |-> bought]

\* the lists the total is checked on: a first item with any non-empty price
\* text, alone or followed by a second item with one of the example prices
TotalInputs ==
    LET first == { PricedItem(1, p, b) : p \in (Texts(MaxPriceLen) \ {<<>>}) \cup ExamplePrices,
                                         b \in BOOLEAN }
        second == { PricedItem(2, p, b) : p \in ExamplePrices, b \in BOOLEAN }
    IN  { <<x>> : x \in first } \cup { <<x, y>> : x \in first, y \in second }

\* the page has loaded a store that holds one of these lists
InitTotal ==
    /\ items \in TotalInputs
    /\ store = Range(items)
    /\ legacy = NoSlot
    /\ total = CalculateTotal(items)
    /\ isLoading = FALSE
    /\ loadPc = "done"
    /\ timers = { [tid |-> 1, snap |-> items] }
    /\ effectTimer = 1
    /\ ops = <<>>
    /\ clock = MaxId
    /\ changes = 0
    /\ delCommitted = {}
    /\ mounted = AtMount(store, legacy)
    /\ lastEvent = Event("getResolved", 0)

NextTotal ==
    \/ HandleToggleBought
    \/ HandleSaveEdit

SpecTotal == InitTotal /\ [][NextTotal]_vars

\* the sum of f over a finite set
RECURSIVE SumOver(_, _)
SumOver(S, f) ==
    IF S = {} THEN 0
    ELSE LET x == CHOOSE y \in S : TRUE IN f[x] + SumOver(S \ {x}, f)

\* the text without every character other than a digit or a point
OnlyNumeric(s) == SelectSeq(s, LAMBDA c : c \in DigitChars \cup {"."})

\* t is a decimal numeral: digits with at most one point and at least one digit
IsNumeral(t) ==
    /\ \A i \in 1..Len(t) : t[i] \in DigitChars \cup {"."}
    /\ Cardinality({ i \in 1..Len(t) : t[i] = "." }) <= 1
    /\ \E i \in 1..Len(t) : t[i] \in DigitChars

\* the amount a numeral denotes, in units: each digit by its place
NumeralAmount(t) ==
    LET points == { i \in 1..Len(t) : t[i] = "." }
        p == IF points = {} THEN Len(t) + 1 ELSE CHOOSE i \in points : TRUE
        place == [ i \in 1..Len(t) |->
                     IF i < p THEN DigitVal(t[i]) * Pow10(p - 1 - i) * Unit
                     ELSE IF i > p /\ i - p <= FracDigits
                          THEN DigitVal(t[i]) * Pow10(FracDigits - (i - p))
                          ELSE 0 ]
    IN  SumOver(1..Len(t), place)

\* what a price contributes: the amount of the longest numeral its stripped
\* text starts with, 0 when it starts with none
Contribution(price) ==
    LET t == OnlyNumeric(price)
        ks == { k \in 1..Len(t) : IsNumeral(SubSeq(t, 1, k)) }
    IN  IF ks = {} THEN 0
        ELSE NumeralAmount(SubSeq(t, 1, CHOOSE k \in ks : \A j \in ks : j <= k))

\* C11: the total is the sum, over exactly the in-memory items that are not
\* bought, of the amount parsed from the price once every character other
\* than a digit or a point is stripped; a price with no number contributes 0.
C11_TotalOfUnbought ==
    ~isLoading =>
        total = SumOver({ i \in 1..Len(items) : ~items[i].bought },
                        [ i \in 1..Len(items) |-> Contribution(items[i].price) ])

\* the scenario of the specification: 1,299 not bought and 2,500 bought
\* total 1299, after the second item was toggled to bought
C11_Witness ==
    /\ Len(items) = 2
    /\ items[1].price = <<"$", "1", ",", "2", "9", "9">> /\ ~items[1].bought
    /\ items[2].price = <<"$", "2", ",", "5", "0", "0">> /\ items[2].bought
    /\ changes > 0
    /\ total = 1299 * Unit

(* -------------------------------- C12 ---------------------------------- *)

\* a step of the user: a change of the list, a delete, or a reload
UserStep ==
    \/ HandleAddItem
    \/ HandleSaveEdit
    \/ HandleToggleBought
    \/ HandleDeleteItem
    \/ Reload

\* a step in which a storage request or a commit fails
FailureStep ==
    \/ OpenFails
    \/ ReadFails
    \/ ClearFails
    \/ PutFails
    \/ SaveAborts
    \/ DeleteFails
    \/ DeleteAborts

Disturbance == UserStep \/ FailureStep

\* a step of the storage engine: a request or a commit succeeds or fails
EngineStep ==
    \/ OpenSucceeds \/ OpenFails
    \/ ReadSucceeds \/ ReadFails
    \/ ClearSucceeds \/ ClearFails
    \/ PutSucceeds \/ PutFails
    \/ SaveCommits \/ SaveAborts
    \/ DeleteSucceeds \/ DeleteFails
    \/ DeleteCommits \/ DeleteAborts

\* a timer that is due fires, and the storage engine does not stop while a
\* request is waiting to be served
Fairness ==
    /\ WF_vars(TimerFires)
    /\ WF_vars(EngineStep)

\* one page session: everything but a reload
Session ==
    \/ HandleAddItem
    \/ HandleSaveEdit
    \/ HandleToggleBought
    \/ HandleDeleteItem
    \/ TimerFires
    \/ OpenSucceeds
    \/ OpenFails
    \/ ReadSucceeds
    \/ ReadFails
    \/ ClearSucceeds
    \/ ClearFails
    \/ PutSucceeds
    \/ PutFails
    \/ SaveCommits
    \/ SaveAborts
    \/ DeleteSucceeds
    \/ DeleteFails
    \/ DeleteCommits
    \/ DeleteAborts

SpecLive == Init /\ [][Session]_vars /\ Fairness

StoreIsMemory == store = Range(items)

Idle == loadPc = "done" /\ ops = <<>> /\ timers = {}

\* C12 as claimed, in the form a finite run refutes: once startup is over
\* and nothing is pending (no timer, no operation in flight), nothing more
\* happens unless the user acts, so the store must already hold the list.
C12_IdleIsReconciled == Idle => StoreIsMemory

\* a replace-all of the current list is still to come: a timer is pending,
\* a deleteItem is awaited (its settling changes the list and sets a timer),
\* or the last operation issued is a debounced replace-all of the current list
ReplaceAllToCome ==
    \/ timers # {}
    \/ \E i \in 1..Len(ops) : ops[i].kind = "del" /\ ops[i].phase \in {"open", "req"}
    \/ /\ ops # <<>>
       /\ ops[Len(ops)].kind = "save"
       /\ ops[Len(ops)].owner = "timer"
       /\ ops[Len(ops)].snap = items

OnTheWay == ReplaceAllToCome \/ (Idle /\ StoreIsMemory)

\* C12 as amended: a state in which a replace-all of the current list is
\* still to come stays such a state, or becomes idle with the store equal to
\* the list, as long as the user does nothing and nothing fails; and from
\* such a state, unless the user acts or a failure occurs again and again,
\* the store eventually holds exactly the in-memory list for good.
C12_ReconciledWhenSaveToCome ==
    /\ [][ (OnTheWay /\ ~Disturbance) => OnTheWay' ]_vars
    /\ ([]<><<Disturbance>>_vars \/ <>[]~OnTheWay \/ <>[]StoreIsMemory)

\* an item was deleted during the session, the list is not empty, and the
\* last debounced replace-all has resolved with nothing left pending: the
\* store holds exactly the in-memory list
C12_Witness ==
    /\ lastEvent.ev = "saveResolved"
    /\ Idle /\ StoreIsMemory
    /\ delCommitted # {}
    /\ items # <<>>

(* -------------------------------- C13 ---------------------------------- *)

\* the startup has settled and the user has not acted: loadItems is over,
\* the debounced save scheduled when isLoading turned false has fired, and
\* no storage operation is in flight
StartupSettled ==
    /\ mounted.pristine
    /\ loadPc = "done"
    /\ timers = {}
    /\ ops = <<>>

\* the legacy slot held a non-empty list and the store was empty at mount
MigrationDue ==
    /\ mounted.store = {}
    /\ mounted.legacy.kind = "array"
    /\ mounted.legacy.val # <<>>

\* C13: once a startup without user action has settled, the store holds the
\* items it held when App mounted, or exactly the legacy items when the
\* store was empty and the legacy slot held a non-empty list.
C13_StartupKeepsStore ==
    StartupSettled =>
        \/ store = mounted.store
        \/ MigrationDue /\ store = Range(mounted.legacy.val)

====
